---- MODULE Spec2Model ----
(***************************************************************************)
(* Noise-correlation pipeline of src/noise_correlations.py:                *)
(* get_firing_rate (spike binning and jitter ensemble), cross_correlate    *)
(* (Pearson coefficient per lag row) and FunctionalConnectivity.noise_corr *)
(* (binning of the two clusters, lag rows, correlation, savemat).          *)
(*                                                                         *)
(* Time is counted in integer ticks; a bin is bin_size ticks wide, so the  *)
(* quotients t/bin_size of the source are exact rationals here.  numpy     *)
(* arrays are functions over 0..n-1 (the source's indices), spike trains   *)
(* are sequences.  The window is [0, tracking_stop]: noise_corr passes     *)
(* tracking_ts[0]-tracking_ts[0] as tracking_start.  Gaussian smoothing is *)
(* off (smooth_fr defaults to False).                                      *)
(***************************************************************************)
EXTENDS Integers, Sequences, FiniteSets, TLC

VARIABLES
    pc,            \* position of the run
    bin_size,      \* kwargs bin_size, in ticks
    bin_num,       \* kwargs bin_num
    to_jitter,     \* kwargs to_jitter
    num_jitters,   \* kwargs num_jitters / shuffle_n
    jitter_size,   \* kwargs jitter_size, in ticks
    tracking_stop, \* tracking_ts[1] - tracking_ts[0], in ticks
    act1, act2,    \* purged spike trains of the selected pair
    fr1, sh1,      \* get_firing_rate's return for act1
    fr2, sh2,      \* get_firing_rate's return for act2
    big_x, y,      \* lag rows of fr1 and the centre slice of fr2
    data, sh_data, \* correlogram and shuffle correlograms
    raised,        \* the exception that ended the run, or "none"
    saved,         \* the record handed to sio.savemat
    ret_jitter,    \* get_firing_rate(act1, ..., to_jitter=True) called on its own
    ret_plain,     \* get_firing_rate(act1, ..., to_jitter=False) called on its own
    ret_draws,     \* the random offsets drawn by the call that gave ret_jitter
    cluster_keys,  \* cluster_data['cluster_spikes'].keys(), in iteration order
    combo_kw,      \* kwargs['combo_idx']: its type and value, or absent
    selected       \* combo_num, the picked pair and combo_name, or the exception

vars == <<pc, bin_size, bin_num, to_jitter, num_jitters, jitter_size,
          tracking_stop, act1, act2, fr1, sh1, fr2, sh2, big_x, y, data,
          sh_data, raised, saved, ret_jitter, ret_plain, ret_draws,
          cluster_keys, combo_kw, selected>>

selection == <<cluster_keys, combo_kw, selected>>

config == <<bin_size, bin_num, to_jitter, num_jitters, jitter_size,
            tracking_stop, act1, act2>>

(* ------------------------------ bounds -------------------------------- *)

\* most eligible clusters of a session
MaxClusters == 22

\* largest magnitude of an int combo_idx
MaxComboIdx == 357

\* longest spike train of a cluster
MaxSpikes == 2
\* largest tracking window, in ticks
MaxStop == 8
\* largest ensemble size
MaxJitters == 2
\* most random draws (spikes times replicates) of one run
MaxDraws == 4
\* most spikes of the two trains of a pair together
MaxPair == MaxSpikes
\* bin widths, in ticks: 1 never rounds, 2 rounds ties only, 3 rounds up and down
BinSizes == {1, 2, 3}
\* bin widths, in ticks, of a run of noise_corr
RunBinSizes == {1, 2}
\* one-sided numbers of lags
BinNums == {1, 2, 3}
\* one-sided jitter bounds, in ticks, of a call of get_firing_rate on its own
JitterSizes == {1, 2}
\* one-sided jitter bounds, in ticks, of a run of noise_corr
RunJitterSizes == {1}

(* ------------------------------ arrays -------------------------------- *)

Size(a) == Cardinality(DOMAIN a)

\* np.zeros(n)
Zeros(n) == [i \in 0..(n - 1) |-> 0]

\* np.zeros((rows, n))
Zeros2(rows, n) == [r \in 0..(rows - 1) |-> Zeros(n)]

\* a[start:stop] for 0 <= start: a stop beyond the end is cut to len(a)
Slice(a, start, stop) ==
    LET end == IF stop > Size(a) THEN Size(a) ELSE stop
    IN  [i \in 0..(end - start - 1) |-> a[start + i]]

RECURSIVE SumTo(_, _)
SumTo(a, n) == IF n = 0 THEN 0 ELSE a[n - 1] + SumTo(a, n - 1)

\* a.sum()
Sum(a) == SumTo(a, Size(a))

(* --------------------------- get_firing_rate -------------------------- *)

\* Ceil with the quotient truncated instead of rounded up
CeilTruncated(a, b) == a \div b

\* int(np.ceil(a / b)) for a >= 0, b > 0
Ceil(a, b) == (a + b - 1) \div b

\* np.round(t / b): nearest integer, ties to the even one
Round(t, b) ==
    LET q == t \div b
        r == t % b
    IN  IF 2 * r < b THEN q
        ELSE IF 2 * r > b THEN q + 1
        ELSE IF q % 2 = 0 THEN q ELSE q + 1

\* np.round(spikes / bin_size).astype(np.int32)
BinIndices(spikes, b) == [k \in DOMAIN spikes |-> Round(spikes[k], b)]

\* numpy accepts index i of an axis of length n iff -n <= i < n
IndexOk(idx, n) == \A k \in DOMAIN idx : -n <= idx[k] /\ idx[k] < n

\* numpy counts a negative index from the end
Wrap(i, n) == IF i < 0 THEN i + n ELSE i

\* arr[idx] += 1 with an index array: numpy reads arr[idx], adds one and writes
\* back, so a bin named several times in idx is raised by one, once
AddAt(arr, idx) ==
    [i \in DOMAIN arr |->
        IF \E k \in DOMAIN idx : Wrap(idx[k], Size(arr)) = i
        THEN arr[i] + 1 ELSE arr[i]]

\* values of 2*jitter_size*np.random.random() - jitter_size: [-jitter_size, jitter_size)
JitterOffsets(jsize) == (-jsize)..(jsize - 1)

\* the draws of one call: one offset per spike and replicate
Draws(cl_activity, jsize, shuffle_n) ==
    [0..(shuffle_n - 1) -> [1..Len(cl_activity) -> JitterOffsets(jsize)]]

\* cl_activity.copy() + offsets, then jitter_spikes[jitter_spikes <= tracking_stop]
JitterSpikes(cl_activity, offsets, stop) ==
    LET moved == [k \in 1..Len(cl_activity) |-> cl_activity[k] + offsets[k]]
        Keep(t) == t <= stop
    IN  SelectSeq(moved, Keep)

Raise(what) == [raised |-> what, fr_arr |-> <<>>, jitter_arr |-> <<>>]

\* get_firing_rate; draws are the values np.random.random returned
get_firing_rate(cl_activity, b, tracking_start, stop, jitter, jsize, shuffle_n, draws) ==
    LET n == Ceil(stop - tracking_start, b)
        fr_arr == Zeros(n)
        jitter_arr == Zeros2(shuffle_n, n)
        real_idx == BinIndices(cl_activity, b)
        jit_idx(sh) == BinIndices(JitterSpikes(cl_activity, draws[sh], stop), b)
    IN  IF jitter
        THEN IF shuffle_n = 0
             THEN [raised |-> "none", fr_arr |-> fr_arr, jitter_arr |-> jitter_arr]
             ELSE IF (\E sh \in 0..(shuffle_n - 1) : ~IndexOk(jit_idx(sh), n))
                     \/ ~IndexOk(real_idx, n)
             THEN Raise("IndexError")
             ELSE [raised |-> "none",
                   fr_arr |-> AddAt(fr_arr, real_idx),
                   jitter_arr |-> [sh \in 0..(shuffle_n - 1) |->
                                      AddAt(jitter_arr[sh], jit_idx(sh))]]
        ELSE IF ~IndexOk(real_idx, n)
             THEN Raise("IndexError")
             ELSE [raised |-> "none",
                   fr_arr |-> AddAt(fr_arr, real_idx),
                   jitter_arr |-> jitter_arr]

(* --------------------------- cross_correlate -------------------------- *)

RECURSIVE Gcd(_, _)
Gcd(a, b) == IF b = 0 THEN a ELSE Gcd(b, a % b)

\* A coefficient num / sqrt(den2) as <<sign, p, q>>: its sign and its square p/q
\* in lowest terms.  0/0 is nan (numpy's array division does not raise).
NaN == <<0, 0, 0>>
One == <<1, 1, 1>>
\* a division that turns 0/0 into 0
QuotientZero(num, den2) ==
    IF den2 = 0 THEN <<0, 0, 1>>
    ELSE LET g == Gcd(num * num, den2)
         IN  <<IF num > 0 THEN 1 ELSE IF num < 0 THEN -1 ELSE 0,
               (num * num) \div g, den2 \div g>>

Quotient(num, den2) ==
    IF den2 = 0 THEN NaN
    ELSE LET g == Gcd(num * num, den2)
         IN  <<IF num > 0 THEN 1 ELSE IF num < 0 THEN -1 ELSE 0,
               (num * num) \div g, den2 \div g>>

\* a.mean() as the fraction s/n
Mean(a) == [s |-> Sum(a), n |-> Size(a)]

\* big_x.mean(axis=1)
RowMeans(big) == [row \in DOMAIN big |-> Mean(big[row])]

\* (a - mean), every entry multiplied by mean.n to stay in the integers
Centred(a, mean) == [i \in DOMAIN a |-> mean.n * a[i] - mean.s]

\* np.sum(a * b) for a and b of one size
Dot(a, b) == Sum([i \in DOMAIN a |-> a[i] * b[i]])

\* cross_correlate with the means left out of the numerator
cross_correlate_raw(big_x_arg, big_x_mean, small_y, small_y_mean) ==
    [row \in DOMAIN big_x_arg |->
        LET cx == Centred(big_x_arg[row], big_x_mean[row])
            cy == Centred(small_y, small_y_mean)
            r_num == big_x_mean[row].n * small_y_mean.n * Dot(big_x_arg[row], small_y)
            r_den2 == Dot(cx, cx) * Dot(cy, cy)
        IN  Quotient(r_num, r_den2)]

\* cross_correlate: r_num / r_den per row of big_x.  Both centred operands
\* carry the factors big_x_mean[row].n and small_y_mean.n, which cancel in r.
cross_correlate(big_x_arg, big_x_mean, small_y, small_y_mean) ==
    [row \in DOMAIN big_x_arg |->
        LET cx == Centred(big_x_arg[row], big_x_mean[row])
            cy == Centred(small_y, small_y_mean)
            r_num == Dot(cx, cy)
            r_den2 == Dot(cx, cx) * Dot(cy, cy)
        IN  Quotient(r_num, r_den2)]

(* ------------------------ noise_corr: correlation --------------------- *)

\* all_bins without its last lag: np.arange(-bin_num, bin_num, 1)
all_bins_short(bnum) == [bin_idx \in 0..(2 * bnum - 1) |-> bin_idx - bnum]

\* np.arange(-bin_num, bin_num+1, 1)
all_bins(bnum) == [bin_idx \in 0..(2 * bnum) |-> bin_idx - bnum]

\* the centre slice taken one bin early
CentreBoundsEarly(bnum, fr1_shape) ==
    [y_start |-> bnum - 1, y_end |-> fr1_shape - bnum - 1]

\* y_start, y_end
CentreBounds(bnum, fr1_shape) == [y_start |-> bnum, y_end |-> fr1_shape - bnum]

\* start_x, end_x of the row of lag one_bin
LagBounds(bnum, fr1_shape, one_bin) ==
    [start_x |-> bnum + one_bin, end_x |-> fr1_shape - bnum + one_bin]

\* the rows written into big_x (big_x_sh): signal[start_x:end_x] per lag
LagRows(signal, bnum, fr1_shape) ==
    [bin_idx \in DOMAIN all_bins(bnum) |->
        LET b == LagBounds(bnum, fr1_shape, all_bins(bnum)[bin_idx])
        IN  Slice(signal, b.start_x, b.end_x)]

\* y (y_sh): signal[y_start:y_end]
CentreSlice(signal, bnum, fr1_shape) ==
    LET c == CentreBounds(bnum, fr1_shape)
    IN  Slice(signal, c.y_start, c.y_end)

\* one pass of the lag loop followed by cross_correlate
Correlogram(x_signal, y_signal, bnum, fr1_shape) ==
    LET rows == LagRows(x_signal, bnum, fr1_shape)
        centre == CentreSlice(y_signal, bnum, fr1_shape)
    IN  cross_correlate(rows, RowMeans(rows), centre, Mean(centre))

\* the pass of replicate sh with the real signal of the second cluster
ShuffleCorrelogramMixed(s1, s2, f1, f2, sh, bnum, fr1_shape) ==
    Correlogram(s1[sh], f2, bnum, fr1_shape)

\* sh_data[sh, :]: the pass of replicate sh
ShuffleCorrelogram(s1, s2, f1, f2, sh, bnum, fr1_shape) ==
    Correlogram(s1[sh], s2[sh], bnum, fr1_shape)

\* data: the pass of the real signals
RealCorrelogram(s1, s2, f1, f2, bnum, fr1_shape) ==
    Correlogram(f1, f2, bnum, fr1_shape)

\* a row assignment big_x[bin_idx, :] = ... needs a row of the allocated width
RowsFit(signal, bnum, fr1_shape) ==
    LET c == CentreBounds(bnum, fr1_shape)
    IN  /\ \A bin_idx \in DOMAIN all_bins(bnum) :
              Size(LagRows(signal, bnum, fr1_shape)[bin_idx]) = c.y_end - c.y_start
        /\ Size(CentreSlice(signal, bnum, fr1_shape)) = c.y_end - c.y_start

\* a dictionary that always holds sh_corr
SavedRecordBoth(jitter, d, shd) == [cross_corr |-> d, sh_corr |-> shd]

\* the dictionary given to sio.savemat
SavedRecord(jitter, d, shd) ==
    IF jitter THEN [cross_corr |-> d, sh_corr |-> shd] ELSE [cross_corr |-> d]

(* ----------------------- noise_corr: pair selection ------------------- *)

\* the literals of list(range(0, 40186, 113))
ComboStop == 40186
ComboStride == 113

\* list(range(start, stop, step)) for a positive step
Range(start, stop, step) ==
    [i \in 1..Ceil(stop - start, step) |-> start + (i - 1) * step]

\* a Python list takes an index i with -len <= i < len, counting a negative
\* one from the end; any other index raises IndexError
ListIndexOk(list, i) == -Len(list) <= i /\ i < Len(list)

ListItem(list, i) == list[Wrap(i, Len(list)) + 1]

\* kwargs without 'combo_idx'
Absent == [type |-> "absent", val |-> 0]

\* type(kwargs['combo_idx']) == bool instead: a mutant of ComboIdx
ComboIdxAnyInt(kw) == IF kw.type \in {"int", "bool"} THEN kw.val ELSE 0

\* combo_idx: the kwarg when present with type(...) == int, else 0;
\* type(True) is bool, not int
ComboIdx(kw) == IF kw.type = "int" THEN kw.val ELSE 0

\* list(combinations(keys, 2)): for each key in order, its pairs with every
\* later key in order
RECURSIVE PairsFrom(_, _)
PairsFrom(keys, i) ==
    IF i >= Len(keys) THEN <<>>
    ELSE [j \in 1..(Len(keys) - i) |-> <<keys[i], keys[i + j]>>]
             \o PairsFrom(keys, i + 1)

combinations(keys) == PairsFrom(keys, 1)

NotSelected == [raised |-> "not run", combo_num |-> -1, pair |-> <<>>,
                combo_name |-> <<>>]

SelectRaise(what) == [raised |-> what, combo_num |-> -1, pair |-> <<>>,
                      combo_name |-> <<>>]

\* combo_num, the pair whose spikes become act1 and act2, and combo_name
\* (an f-string: first key, '-', second key)
select_pair(keys, kw) ==
    LET strides == Range(0, ComboStop, ComboStride)
        combo_idx == ComboIdx(kw)
    IN  IF ~ListIndexOk(strides, combo_idx) THEN SelectRaise("IndexError")
        ELSE LET combo_num == ListItem(strides, combo_idx)
                 cl_combinations == combinations(keys)
             IN  IF ~ListIndexOk(cl_combinations, combo_num)
                 THEN SelectRaise("IndexError")
                 ELSE LET pair == ListItem(cl_combinations, combo_num)
                      IN  [raised |-> "none", combo_num |-> combo_num,
                           pair |-> pair,
                           combo_name |-> <<pair[1], "-", pair[2]>>]

(* ------------------------------- inputs ------------------------------- *)

\* spike trains inside the window [0, stop]: distinct instants in time order
Trains(stop) ==
    {s \in UNION {[1..k -> 0..stop] : k \in 0..MaxSpikes} :
        \A i \in 1..(Len(s) - 1) : s[i] < s[i + 1]}

(* ---------------- get_firing_rate called on its own ------------------- *)

NotCalled == [raised |-> "not called", fr_arr |-> <<>>, jitter_arr |-> <<>>]

InitFR ==
    /\ pc = "fr"
    /\ bin_size \in BinSizes
    /\ jitter_size \in JitterSizes
    /\ tracking_stop \in (MaxStop - 1)..MaxStop
    /\ num_jitters \in 0..MaxJitters
    /\ act1 \in Trains(tracking_stop)
    /\ Len(act1) * num_jitters <= MaxDraws
    /\ act2 = <<>>
    /\ bin_num = 0
    /\ to_jitter = FALSE
    /\ fr1 = <<>> /\ sh1 = <<>> /\ fr2 = <<>> /\ sh2 = <<>>
    /\ big_x = <<>> /\ y = <<>> /\ data = <<>> /\ sh_data = <<>>
    /\ raised = "none"
    /\ saved = <<>>
    /\ ret_jitter = NotCalled
    /\ ret_plain = NotCalled
    /\ ret_draws = <<>>
    /\ cluster_keys = <<>>
    /\ combo_kw = Absent
    /\ selected = NotSelected

pipeline == <<fr1, sh1, fr2, sh2, big_x, y, data, sh_data, raised, saved>>

CallJitter ==
    /\ pc = "fr"
    /\ ret_jitter = NotCalled
    /\ \E draws \in Draws(act1, jitter_size, num_jitters) :
          /\ ret_jitter' = get_firing_rate(act1, bin_size, 0, tracking_stop,
                                           TRUE, jitter_size, num_jitters, draws)
          /\ ret_draws' = draws
    /\ UNCHANGED <<pc, config, pipeline, ret_plain, selection>>

CallPlain ==
    /\ pc = "fr"
    /\ ret_plain = NotCalled
    /\ ret_plain' = get_firing_rate(act1, bin_size, 0, tracking_stop,
                                    FALSE, jitter_size, num_jitters,
                                    [sh \in 0..(num_jitters - 1) |-> <<>>])
    /\ UNCHANGED <<pc, config, pipeline, ret_jitter, ret_draws, selection>>

NextFR == CallJitter \/ CallPlain

SpecFR == InitFR /\ [][NextFR]_vars

(* ------------------------------ noise_corr ---------------------------- *)

Init ==
    /\ pc = "start"
    /\ bin_size \in RunBinSizes
    /\ bin_num \in BinNums
    /\ to_jitter \in BOOLEAN
    /\ num_jitters \in 1..MaxJitters
    /\ jitter_size \in RunJitterSizes
    /\ tracking_stop = MaxStop
    /\ act1 \in Trains(tracking_stop)
    /\ act2 \in Trains(tracking_stop)
    /\ Len(act1) + Len(act2) <= MaxPair
    /\ to_jitter => (Len(act1) + Len(act2)) * num_jitters <= MaxDraws
    /\ ~to_jitter => num_jitters = 1
    /\ fr1 = <<>> /\ sh1 = <<>> /\ fr2 = <<>> /\ sh2 = <<>>
    /\ big_x = <<>> /\ y = <<>> /\ data = <<>> /\ sh_data = <<>>
    /\ raised = "none"
    /\ saved = <<>>
    /\ ret_jitter = NotCalled
    /\ ret_plain = NotCalled
    /\ ret_draws = <<>>
    /\ cluster_keys = <<>>
    /\ combo_kw = Absent
    /\ selected = NotSelected

\* the call of get_firing_rate noise_corr makes for one train
RunFiringRate(act, draws) ==
    IF to_jitter
    THEN get_firing_rate(act, bin_size, 0, tracking_stop, TRUE, jitter_size,
                         num_jitters, draws)
    ELSE get_firing_rate(act, bin_size, 0, tracking_stop, FALSE, jitter_size,
                         1, draws)

RunDraws(act) ==
    IF to_jitter THEN Draws(act, jitter_size, num_jitters)
    ELSE {[sh \in 0..0 |-> <<>>]}

\* fr1, sh1 = get_firing_rate(cl_activity=act1, ...)
FiringRate1 ==
    /\ pc = "start"
    /\ \E draws \in RunDraws(act1) :
          LET ret == RunFiringRate(act1, draws)
          IN  IF ret.raised = "none"
              THEN /\ fr1' = ret.fr_arr
                   /\ sh1' = ret.jitter_arr
                   /\ pc' = "binned1"
                   /\ UNCHANGED raised
              ELSE /\ raised' = ret.raised
                   /\ pc' = "failed"
                   /\ UNCHANGED <<fr1, sh1>>
    /\ UNCHANGED <<config, fr2, sh2, big_x, y, data, sh_data, saved,
                   ret_jitter, ret_plain, ret_draws, selection>>

\* fr2, sh2 = get_firing_rate(cl_activity=act2, ...)
FiringRate2 ==
    /\ pc = "binned1"
    /\ \E draws \in RunDraws(act2) :
          LET ret == RunFiringRate(act2, draws)
          IN  IF ret.raised = "none"
              THEN /\ fr2' = ret.fr_arr
                   /\ sh2' = ret.jitter_arr
                   /\ pc' = "binned2"
                   /\ UNCHANGED raised
              ELSE /\ raised' = ret.raised
                   /\ pc' = "failed"
                   /\ UNCHANGED <<fr2, sh2>>
    /\ UNCHANGED <<config, fr1, sh1, big_x, y, data, sh_data, saved,
                   ret_jitter, ret_plain, ret_draws, selection>>

\* the block "# cross-correlate"
CrossCorrelate ==
    /\ pc = "binned2"
    /\ LET fr1_shape == Size(fr1)
           c == CentreBounds(bin_num, fr1_shape)
       IN  IF c.y_end - c.y_start < 0 \/ ~RowsFit(fr1, bin_num, fr1_shape)
           THEN /\ raised' = "ValueError"
                /\ pc' = "failed"
                /\ UNCHANGED <<big_x, y, data, sh_data>>
           ELSE /\ big_x' = LagRows(fr1, bin_num, fr1_shape)
                /\ y' = CentreSlice(fr2, bin_num, fr1_shape)
                /\ data' = RealCorrelogram(sh1, sh2, fr1, fr2, bin_num, fr1_shape)
                /\ sh_data' = IF to_jitter
                              THEN [sh \in 0..(num_jitters - 1) |->
                                      ShuffleCorrelogram(sh1, sh2, fr1, fr2, sh,
                                                         bin_num, fr1_shape)]
                              ELSE sh_data
                /\ pc' = "correlated"
                /\ UNCHANGED raised
    /\ UNCHANGED <<config, fr1, sh1, fr2, sh2, saved, ret_jitter, ret_plain,
                   ret_draws, selection>>

\* sio.savemat(...)
SaveMat ==
    /\ pc = "correlated"
    /\ saved' = SavedRecord(to_jitter, data, sh_data)
    /\ pc' = "saved"
    /\ UNCHANGED <<config, fr1, sh1, fr2, sh2, big_x, y, data, sh_data, raised,
                   ret_jitter, ret_plain, ret_draws, selection>>

Next == FiringRate1 \/ FiringRate2 \/ CrossCorrelate \/ SaveMat

Spec == Init /\ [][Next]_vars

(* ------------------- noise_corr up to the picked pair ----------------- *)

\* cluster keys are numbered; a session lists them in rising or falling order
KeyLists == UNION {{[i \in 1..n |-> i], [i \in 1..n |-> n + 1 - i]} :
                       n \in 0..MaxClusters}

\* kwargs['combo_idx']: absent, an int, or a value of another type
ComboKwargs ==
    {Absent} \cup {[type |-> "int", val |-> v] : v \in (-MaxComboIdx)..MaxComboIdx}
             \cup {[type |-> t, val |-> 1] : t \in {"bool", "float", "str"}}

InitPair ==
    /\ pc = "pair"
    /\ cluster_keys \in KeyLists
    /\ combo_kw \in ComboKwargs
    /\ selected = NotSelected
    /\ bin_size = 1
    /\ bin_num = 0
    /\ to_jitter = FALSE
    /\ num_jitters = 0
    /\ jitter_size = 1
    /\ tracking_stop = 0
    /\ act1 = <<>>
    /\ act2 = <<>>
    /\ fr1 = <<>>
    /\ sh1 = <<>>
    /\ fr2 = <<>>
    /\ sh2 = <<>>
    /\ big_x = <<>>
    /\ y = <<>>
    /\ data = <<>>
    /\ sh_data = <<>>
    /\ raised = "none"
    /\ saved = <<>>
    /\ ret_jitter = NotCalled
    /\ ret_plain = NotCalled
    /\ ret_draws = <<>>

SelectPair ==
    /\ pc = "pair"
    /\ selected' = select_pair(cluster_keys, combo_kw)
    /\ pc' = "picked"
    /\ UNCHANGED <<config, pipeline, ret_jitter, ret_plain, ret_draws,
                   cluster_keys, combo_kw>>

NextPair == SelectPair

SpecPair == InitPair /\ [][NextPair]_vars

(* ------------------------- properties: binning ------------------------ *)

Returned(ret) == ret.raised = "none"

\* n = ceil(tracking_stop / bin_size): the least n with n * bin_size >= tracking_stop
IsBinCount(n) == (n - 1) * bin_size < tracking_stop /\ tracking_stop <= n * bin_size

\* C1: without jitter the entries of the real signal sum to the number of
\* input spikes, also when several spikes round to one bin.
C1_Conservation ==
    Returned(ret_plain) => Sum(ret_plain.fr_arr) = Len(act1)

\* C2: the real signal has ceil((tracking_stop - tracking_start)/bin_size)
\* entries, and with jitter the ensemble has shuffle_n rows of that length.
C2_SignalShapes ==
    /\ Returned(ret_plain) => IsBinCount(Size(ret_plain.fr_arr))
    /\ Returned(ret_jitter) =>
          /\ IsBinCount(Size(ret_jitter.fr_arr))
          /\ Size(ret_jitter.jitter_arr) = num_jitters
          /\ \A sh \in 0..(num_jitters - 1) :
                Size(ret_jitter.jitter_arr[sh]) = Size(ret_jitter.fr_arr)

C2_Witness ==
    /\ Returned(ret_jitter)
    /\ Returned(ret_plain)
    /\ num_jitters = MaxJitters
    /\ Len(act1) > 0
    /\ tracking_stop % bin_size # 0

\* C9: the real signal of a call with to_jitter=True is the real signal of
\* the call with to_jitter=False on the same input, whatever the random draws
\* are; stated here for the ensemble sizes shuffle_n >= 1, where the loop
\* that fills the real signal runs at all.
C9_RealSignalSameInBothModes ==
    (num_jitters >= 1 /\ ret_jitter # NotCalled /\ ret_plain # NotCalled) =>
        /\ ret_jitter.raised = ret_plain.raised
        /\ ret_jitter.fr_arr = ret_plain.fr_arr

\* C10: for spikes inside the window get_firing_rate ends without an
\* out-of-range index.
C10_NoIndexError == ret_plain.raised # "IndexError"

\* C11: in every replicate each spike is moved by an offset in
\* [-jitter_size, jitter_size]; a moved spike later than tracking_stop is in
\* no bin, and every other moved spike, one moved before the window start
\* included, is in the bin round(t/bin_size) of its moved time t and in no
\* other: bin i of the replicate is occupied exactly when a kept moved spike
\* rounds to i.
C11_JitterBins ==
    Returned(ret_jitter) =>
        \A sh \in 0..(num_jitters - 1) :
            /\ \A k \in 1..Len(act1) :
                  -jitter_size <= ret_draws[sh][k] /\ ret_draws[sh][k] <= jitter_size
            /\ \A i \in DOMAIN ret_jitter.jitter_arr[sh] :
                  ret_jitter.jitter_arr[sh][i] > 0 <=>
                      \E k \in 1..Len(act1) :
                          LET t == act1[k] + ret_draws[sh][k]
                          IN  t <= tracking_stop /\ Round(t, bin_size) = i

(* ------------------------ properties: noise_corr ---------------------- *)

Correlated == pc \in {"correlated", "saved"}

Constant(a) == \A i, j \in DOMAIN a : a[i] = a[j]

\* the window of the centre's width that starts at bin `start` of signal
Window(signal, start) ==
    [i \in 0..(Size(signal) - 2 * bin_num - 1) |-> signal[start + i]]

\* the coefficient of one row against one reference
PearsonOf(x, ref) ==
    cross_correlate([r \in {0} |-> x], [r \in {0} |-> Mean(x)], ref, Mean(ref))[0]

\* C3: for signals longer than 2*bin_num there are 2*bin_num+1 lag rows, the
\* row of lag l is the slice of fr1 starting at bin_num+l, as long as the
\* centre slice [bin_num, len-bin_num) of fr2, every slice lies inside the
\* signal, and the result has 2*bin_num+1 values (num_jitters rows of them
\* for the shuffles).
C3_CorrelogramShape ==
    /\ raised = "ValueError" => Size(fr1) < 2 * bin_num
    /\ (Correlated /\ Size(fr1) > 2 * bin_num) =>
          LET w == Size(fr1) - 2 * bin_num
          IN  /\ DOMAIN big_x = 0..(2 * bin_num)
              /\ \A bin_idx \in 0..(2 * bin_num) :
                    /\ bin_idx + w <= Size(fr1)
                    /\ big_x[bin_idx] = [i \in 0..(w - 1) |-> fr1[bin_idx + i]]
              /\ y = [i \in 0..(w - 1) |-> fr2[bin_num + i]]
              /\ DOMAIN data = 0..(2 * bin_num)
              /\ to_jitter =>
                    /\ DOMAIN sh_data = 0..(num_jitters - 1)
                    /\ \A sh \in 0..(num_jitters - 1) :
                          DOMAIN sh_data[sh] = 0..(2 * bin_num)

C3_Witness ==
    /\ pc = "saved"
    /\ to_jitter
    /\ num_jitters = MaxJitters
    /\ bin_num = 2
    /\ Size(fr1) > 2 * bin_num
    /\ act1 # <<>>
    /\ act2 # <<>>

\* C4 as claimed: the coefficient of fr1 (lagged) against fr2 (centre) at lag
\* l is the coefficient of fr2 (lagged) against fr1 (centre) at lag -l.
C4_LagSymmetry ==
    Correlated =>
        \A bin_idx \in 0..(2 * bin_num) :
            data[bin_idx] =
                Correlogram(fr2, fr1, bin_num, Size(fr2))[2 * bin_num - bin_idx]

\* C4 amended: at lag 0 the coefficient of fr1 against fr2 is the
\* coefficient of fr2 against fr1.
C4_LagZeroSymmetry ==
    Correlated =>
        data[bin_num] = Correlogram(fr2, fr1, bin_num, Size(fr2))[bin_num]

C4_Witness ==
    /\ Correlated
    /\ fr1 # fr2
    /\ data[bin_num] # NaN
    /\ \E bin_idx \in 0..(2 * bin_num) :
          data[bin_idx] #
              Correlogram(fr2, fr1, bin_num, Size(fr2))[2 * bin_num - bin_idx]

\* C5 as claimed: a non-constant signal longer than 2*bin_num correlated with
\* itself has coefficient 1 at lag 0.
C5_SelfCorrelation ==
    (Correlated /\ fr1 = fr2 /\ Size(fr1) > 2 * bin_num /\ ~Constant(fr1)) =>
        data[bin_num] = One

\* C5 amended: a signal whose centre slice [bin_num, len-bin_num) is not
\* constant, correlated with itself, has coefficient 1 at lag 0.
C5_SelfCorrelationCentre ==
    (Correlated /\ fr1 = fr2 /\ Size(fr1) > 2 * bin_num
        /\ ~Constant(Window(fr1, bin_num))) =>
        data[bin_num] = One

C5_Witness ==
    /\ Correlated
    /\ fr1 = fr2
    /\ ~Constant(Window(fr1, bin_num))
    /\ data[bin_num] = One
    /\ \E bin_idx \in 0..(2 * bin_num) : data[bin_idx] \notin {One, NaN}

\* what C6 says of one state
DegenerateIsNaN ==
    /\ raised = "ValueError" => Size(fr1) < 2 * bin_num
    /\ Correlated =>
          /\ raised = "none"
          /\ \A bin_idx \in 0..(2 * bin_num) :
                data[bin_idx] = NaN <=> (Constant(big_x[bin_idx]) \/ Constant(y))
          /\ act1 = <<>> \/ act2 = <<>> =>
                \A bin_idx \in 0..(2 * bin_num) : data[bin_idx] = NaN
          /\ to_jitter =>
                \A sh \in 0..(num_jitters - 1) : \A bin_idx \in 0..(2 * bin_num) :
                    sh_data[sh][bin_idx] = NaN <=>
                        \/ Constant(Window(sh1[sh], bin_idx))
                        \/ Constant(Window(sh2[sh], bin_num))
    /\ pc = "saved" => saved.cross_corr = data

\* the step after the binning is the correlation, whatever the variances are
CorrelationCompletes ==
    (pc = "binned2" /\ Size(fr1) >= 2 * bin_num) => pc' = "correlated"

\* the step after the correlation saves the correlogram, nan included
SaveCompletes ==
    pc = "correlated" => (pc' = "saved" /\ saved'.cross_corr = data)

\* C6: a lag is nan exactly when its row of the first signal or the centre
\* slice of the second has zero variance (all lags when a train is empty),
\* for the real signals and for every replicate; nothing is raised, and the
\* run goes on to savemat and saves the correlogram.
C6_DegenerateIsNaN ==
    /\ []DegenerateIsNaN
    /\ [][CorrelationCompletes]_vars
    /\ [][SaveCompletes]_vars

C6_Witness ==
    /\ pc = "saved"
    /\ \E bin_idx \in 0..(2 * bin_num) : data[bin_idx] = NaN
    /\ \E bin_idx \in 0..(2 * bin_num) : data[bin_idx] # NaN
    /\ saved.cross_corr = data

\* C7 as claimed: with to_jitter=False no ensemble is allocated or returned
\* and the saved record holds the key cross_corr only.
C7_NoEnsemble ==
    (pc = "saved" /\ ~to_jitter) =>
        /\ Size(sh1) = 0
        /\ Size(sh2) = 0
        /\ DOMAIN saved = {"cross_corr"}

\* C7 amended: with to_jitter=False get_firing_rate still returns an
\* ensemble, shuffle_n rows of zeros (one row in noise_corr), which is never
\* filled or correlated; the saved record holds the key cross_corr only.
C7_ZeroEnsemble ==
    ~to_jitter =>
        /\ pc \in {"binned1", "binned2", "correlated", "saved"} =>
              sh1 = [sh \in 0..0 |-> [i \in DOMAIN fr1 |-> 0]]
        /\ pc \in {"binned2", "correlated", "saved"} =>
              sh2 = [sh \in 0..0 |-> [i \in DOMAIN fr2 |-> 0]]
        /\ sh_data = <<>>
        /\ pc = "saved" => DOMAIN saved = {"cross_corr"} /\ saved.cross_corr = data

C7_Witness ==
    /\ pc = "saved"
    /\ ~to_jitter
    /\ act1 # <<>>
    /\ act2 # <<>>
    /\ Size(sh1) = 1
    /\ DOMAIN saved = {"cross_corr"}

\* C8: sh_corr[sh] is computed, at every lag, from replicate sh of the first
\* ensemble and replicate sh of the second, and cross_corr from the two real
\* signals.
C8_PerReplicate ==
    Correlated =>
        /\ \A bin_idx \in 0..(2 * bin_num) :
              data[bin_idx] = PearsonOf(Window(fr1, bin_idx), Window(fr2, bin_num))
        /\ to_jitter =>
              \A sh \in 0..(num_jitters - 1) : \A bin_idx \in 0..(2 * bin_num) :
                  sh_data[sh][bin_idx] =
                      PearsonOf(Window(sh1[sh], bin_idx), Window(sh2[sh], bin_num))

C8_Witness ==
    /\ pc = "saved"
    /\ to_jitter
    /\ num_jitters = 2
    /\ sh1[0] # sh1[1]
    /\ sh2[0] # sh2[1]
    /\ sh2[1] # fr2
    /\ sh_data[0] # sh_data[1]
    /\ sh_data[1] # data
    /\ \E bin_idx \in 0..(2 * bin_num) : sh_data[1][bin_idx] # NaN

(* ---------------------- properties: pair selection -------------------- *)

Picked == pc = "picked"

\* the multiples of 113 below 40186 are 113 * 0 .. 113 * (StrideCount - 1)
StrideCount == (ComboStop - 1) \div ComboStride + 1

\* number of unordered pairs of n clusters
PairCount(n) == (n * (n - 1)) \div 2

\* place, counted from 0, of the pair (i-th key, j-th key), i < j, among the
\* unordered pairs of n keys listed first key by first key
Rank(i, j, n) == (i - 1) * n - ((i - 1) * i) \div 2 + (j - i - 1)

\* the picked pair is the one at place pos of the pairs of cluster_keys, its
\* two clusters differ and combo_name is '<first>-<second>'
PickedAt(pos) ==
    /\ selected.raised = "none"
    /\ selected.combo_num = pos
    /\ \E i, j \in 1..Len(cluster_keys) :
          /\ i < j
          /\ Rank(i, j, Len(cluster_keys)) = pos
          /\ selected.pair = <<cluster_keys[i], cluster_keys[j]>>
    /\ selected.pair[1] # selected.pair[2]
    /\ selected.combo_name = <<selected.pair[1], "-", selected.pair[2]>>

\* C12 as stated: for every list of at least two eligible clusters and every
\* combo_idx, noise_corr picks the pair at place 113 * combo_idx of the
\* unordered pairs in iteration order, two different clusters, named
\* '<first>-<second>'; a combo_idx that is not an int picks place 0.
C12_PairSelection ==
    (Picked /\ Len(cluster_keys) >= 2) =>
        IF combo_kw.type = "int" THEN PickedAt(ComboStride * combo_kw.val)
        ELSE PickedAt(0)

\* C12 amended: a combo_idx whose type is not exactly int (absent, bool,
\* float, str) counts as 0; combo_idx in 0..355 names place 113 * combo_idx
\* and combo_idx in -356..-1 names place 113 * (356 + combo_idx); the pair at
\* that place is picked, two different clusters, named '<first>-<second>',
\* when the place is below the number of pairs; any other combo_idx or place
\* raises IndexError and no pair is picked.
C12_PairSelectionInRange ==
    Picked =>
        LET idx == IF combo_kw.type = "int" THEN combo_kw.val ELSE 0
            pos == IF idx >= 0 THEN ComboStride * idx
                   ELSE ComboStride * (StrideCount + idx)
        IN  IF /\ -StrideCount <= idx
               /\ idx < StrideCount
               /\ pos < PairCount(Len(cluster_keys))
            THEN PickedAt(pos)
            ELSE selected = SelectRaise("IndexError")

\* combo_idx = 1 picked the pair at place 113 of a falling key list
C12_Witness ==
    /\ Picked
    /\ combo_kw = [type |-> "int", val |-> 1]
    /\ Len(cluster_keys) = MaxClusters
    /\ cluster_keys[1] = MaxClusters
    /\ selected.raised = "none"
    /\ selected.combo_num = ComboStride

====
